---------------------------- MODULE Spec2Model ----------------------------
(***************************************************************************)
(* A model of mockldap.LDAPObject (src/mockldap/ldapobject.py): the        *)
(* in-memory directory, the session fields and the async result list, with *)
(* one action per LDAP method.                                             *)
(*                                                                         *)
(* Representation of Python values                                         *)
(*   - A text (a Python str used as a DN) is the sequence of its           *)
(*     ','-separated segments; a segment is the sequence of its            *)
(*     '='-separated pieces.  "cn=alice,dc=com" is                         *)
(*     << <<"cn","alice">>, <<"dc","com">> >>, the empty string is         *)
(*     << <<"">> >>, "cn=al," is << <<"cn","al">>, <<"">> >>.              *)
(*   - An attribute value is <<"bytes", s>> or <<"str", s>>.               *)
(*   - None is the empty tuple; an optional value x that is present is     *)
(*     <<x>>.                                                              *)
(*   - A dict is a function on its key set.  A list of search results is   *)
(*     modelled as the set of its items (the iteration order of the        *)
(*     directory is not modelled).                                         *)
(*   - Every list or dict literal passed to a method is a fresh object.    *)
(***************************************************************************)
EXTENDS Integers, Sequences, FiniteSets, TLC

VARIABLES
    directory,      \* self.directory: lowered key -> [dn |-> key as stored, attrs |-> entry]
    async_results,  \* self.async_results: sequence of slots (None or <<items>>)
    options,        \* self.options
    tls_enabled,    \* self.tls_enabled
    bound_as,       \* self.bound_as: None or <<text>>
    ncalls,         \* len(self.methods_called()): the number of recorded calls
    ret             \* the outcome of the last call: what it returned or raised

vars == <<directory, async_results, options, tls_enabled, bound_as, ncalls, ret>>

None == <<>>

Some(x) == <<x>>

-----------------------------------------------------------------------------
(* Bounds of the model *)

\* at most this many recorded calls in a run
MaxCalls == 2

\* at most this many recorded calls in a run of searches and fetches
MaxAsyncCalls == 4

-----------------------------------------------------------------------------
(* Python str, bytes, list and dict operations *)

EmptySeg == <<"">>

EmptyText == <<EmptySeg>>

\* str.lower() on one piece: the letters of the model's pieces
LowerPiece(p) ==
    CASE p = "CN" -> "cn"
      [] p = "DC" -> "dc"
      [] OTHER -> p

\* str.lower()
Lower(t) == [i \in DOMAIN t |-> [j \in DOMAIN t[i] |-> LowerPiece(t[i][j])]]

\* s.split(','): the segments
SplitComma(t) == [i \in 1..Len(t) |-> t[i]]

\* ','.join(parts): no part gives the empty string
JoinComma(parts) == IF parts = <<>> THEN EmptyText ELSE parts

\* '%s,%s' % (a, b)
CommaConcat(a, b) == a \o b

\* seg.split('='): the pieces
SplitEq(seg) == [i \in 1..Len(seg) |-> seg[i]]

\* bool(s) of an optional text: None and '' are false
Truthy(opt) == opt # None /\ opt[1] # EmptyText

\* s.encode('utf-8')
Encode(s) == <<"bytes", s>>

\* isinstance(v, bytes)
IsBytes(v) == v[1] = "bytes"

\* b.decode('utf-8'), of a bytes value
Decode(v) == v[2]

\* x in list
InList(x, l) == \E i \in DOMAIN l : l[i] = x

\* [v for v in l if v not in drop]
RECURSIVE ListWithout(_, _)
ListWithout(l, drop) ==
    IF l = <<>> THEN <<>>
    ELSE IF InList(Head(l), drop) THEN ListWithout(Tail(l), drop)
         ELSE <<Head(l)>> \o ListWithout(Tail(l), drop)

\* l.remove(x): the first occurrence (x is in l)
RECURSIVE ListRemove(_, _)
ListRemove(l, x) ==
    IF l = <<>> THEN <<>>
    ELSE IF Head(l) = x THEN Tail(l)
         ELSE <<Head(l)>> \o ListRemove(Tail(l), x)

\* d[k] = v
DictSet(d, k, v) == [x \in DOMAIN d \cup {k} |-> IF x = k THEN v ELSE d[x]]

\* del d[k]
DictDel(d, k) == [x \in DOMAIN d \ {k} |-> d[x]]

EmptyDict == [x \in {} |-> None]

-----------------------------------------------------------------------------
(* ldap.dn and ldap.cidict *)

\* ldap.dn.str2dn(dn) succeeds: '' is the root DN; otherwise every segment is
\* attr=value with a non-empty attr (an empty segment, as a trailing comma
\* leaves, is a decoding error)
ValidDn(t) ==
    \/ t = EmptyText
    \/ \A i \in DOMAIN t : Len(t[i]) = 2 /\ t[i][1] # ""

\* ldap.dn.explode_dn(dn) of a DN that str2dn accepts: the list of its RDNs
ExplodeDn(t) == IF t = EmptyText THEN <<>> ELSE SplitComma(t)

\* key in cidict
CiHas(dir, key) == Lower(key) \in DOMAIN dir

\* cidict[key]
CiGet(dir, key) == dir[Lower(key)].attrs

\* cidict[key] = entry: stored under the lowered key, the key kept as given
CiSet(dir, key, entry) == DictSet(dir, Lower(key), [dn |-> key, attrs |-> entry])

\* del cidict[key]
CiDel(dir, key) == DictDel(dir, Lower(key))

-----------------------------------------------------------------------------
(* Search results that alias the directory                                 *)
(*                                                                         *)
(* _search_s returns (dn, self.directory[dn]): the entry dict itself.      *)
(* With an attrlist it returns a new dict holding the entry's value lists  *)
(* themselves.  An item records what it still shares with the directory:   *)
(*   key    None, or <<k>>: the entry now stored under the lowered key k   *)
(*   whole  the item's dict is the entry's dict                            *)
(*   live   the attributes whose list is the entry's list                  *)
(*   val    the item's content as a reader sees it now                     *)
(***************************************************************************)

\* the item after the entry under k was changed in place to newattrs, the
\* attributes in rebound having been deleted or bound to a new list
ItemTouch(it, k, newattrs, rebound) ==
    IF it.key # Some(k) THEN it
    ELSE IF it.whole THEN [it EXCEPT !.val = newattrs]
    ELSE LET lv == it.live \ rebound
         IN [it EXCEPT !.live = lv,
                       !.key = IF lv = {} THEN None ELSE @,
                       !.val = [a \in DOMAIN it.val |->
                                  IF a \in lv THEN newattrs[a] ELSE it.val[a]]]

\* the item after the entry under k left the directory
ItemDetach(it, k) ==
    IF it.key # Some(k) THEN it
    ELSE [it EXCEPT !.key = None, !.whole = FALSE, !.live = {}]

\* the item after the entry under k was stored under k2
ItemRekey(it, k, k2) ==
    IF it.key # Some(k) THEN it ELSE [it EXCEPT !.key = Some(k2)]

Touch(res, k, newattrs, rebound) ==
    [i \in DOMAIN res |->
        IF res[i] = None THEN None
        ELSE Some({ItemTouch(it, k, newattrs, rebound) : it \in res[i][1]})]

Detach(res, k) ==
    [i \in DOMAIN res |->
        IF res[i] = None THEN None
        ELSE Some({ItemDetach(it, k) : it \in res[i][1]})]

Rekey(res, k, k2) ==
    [i \in DOMAIN res |->
        IF res[i] = None THEN None
        ELSE Some({ItemRekey(it, k, k2) : it \in res[i][1]})]

\* what a reader of a result list sees: the (dn, attrs) pairs
Visible(items) == {<<it.dn, it.val>> : it \in items}

-----------------------------------------------------------------------------
(* _add_s *)

\* any(not isinstance(_, bytes) for _ in values)
AnyNotBytes(values) == \E i \in DOMAIN values : ~IsBytes(values[i])

\* the loop of _add_s over record, from entry: a TypeError, or the entry built
RECURSIVE BuildEntry(_, _)
BuildEntry(entry, record) ==
    IF record = <<>> THEN [exc |-> "", entry |-> entry]
    ELSE LET item == Head(record) IN
         IF AnyNotBytes(item[2]) THEN [exc |-> "TypeError", entry |-> entry]
         ELSE BuildEntry(DictSet(entry, item[1], item[2]), Tail(record))

\* _add_s(dn, record) in directory dir, as recorded call number n
AddS(dir, n, dn, record) ==
    IF ~ValidDn(dn) THEN [exc |-> "INVALID_DN_SYNTAX", val |-> None, dir |-> dir]
    ELSE LET built == BuildEntry(EmptyDict, record) IN
         IF built.exc # "" THEN [exc |-> built.exc, val |-> None, dir |-> dir]
         ELSE IF CiHas(dir, dn)
              THEN [exc |-> "ALREADY_EXISTS", val |-> None, dir |-> dir]
              ELSE [exc |-> "", val |-> <<105, <<>>, n, <<>>>>,
                    dir |-> CiSet(dir, Lower(dn), built.entry)]

-----------------------------------------------------------------------------
(* _delete_s *)

DeleteS(dir, res, dn) ==
    IF ~ValidDn(dn)
    THEN [exc |-> "INVALID_DN_SYNTAX", val |-> None, dir |-> dir, res |-> res]
    ELSE IF ~CiHas(dir, dn)
    THEN [exc |-> "NO_SUCH_OBJECT", val |-> None, dir |-> dir, res |-> res]
    ELSE [exc |-> "", val |-> <<107, <<>>>>,
          dir |-> CiDel(dir, dn), res |-> Detach(res, Lower(dn))]

-----------------------------------------------------------------------------
(* _modify_s *)

\* lines 296-299: None becomes [], a value that is no list is wrapped.
\* A triple's value is <<"none">>, <<"list", l>> or <<"scalar", v>>.
NormValue(value) ==
    CASE value[1] = "none" -> <<>>
      [] value[1] = "list" -> value[2]
      [] value[1] = "scalar" -> <<value[2]>>

\* an append loop without the membership test
AppendAll(cur, value) == cur \o value

\* lines 311-313: append each subvalue that is not yet in the list
RECURSIVE AppendNew(_, _)
AppendNew(cur, value) ==
    IF value = <<>> THEN cur
    ELSE AppendNew(IF InList(Head(value), cur) THEN cur ELSE Append(cur, Head(value)),
                   Tail(value))

\* The three branches give the entry after the triple, the attributes it
\* deleted or bound to a new list, and the exception it raised ("" if none).

\* op == ldap.MOD_ADD
ModAdd(entry, key, value) ==
    IF value = <<>> THEN [exc |-> "PROTOCOL_ERROR", attrs |-> entry, rebound |-> {}]
    ELSE IF AnyNotBytes(value) THEN [exc |-> "TypeError", attrs |-> entry, rebound |-> {}]
    ELSE IF key \notin DOMAIN entry
         THEN [exc |-> "", attrs |-> DictSet(entry, key, value), rebound |-> {key}]
         ELSE [exc |-> "", attrs |-> DictSet(entry, key, AppendNew(entry[key], value)),
               rebound |-> {}]

\* op == ldap.MOD_DELETE
ModDelete(entry, key, value) ==
    IF key \notin DOMAIN entry THEN [exc |-> "", attrs |-> entry, rebound |-> {}]
    ELSE IF value = <<>>
         THEN [exc |-> "", attrs |-> DictDel(entry, key), rebound |-> {key}]
    ELSE IF AnyNotBytes(value) THEN [exc |-> "TypeError", attrs |-> entry, rebound |-> {}]
    ELSE LET kept == ListWithout(entry[key], value) IN
         [exc |-> "",
          attrs |-> IF kept = <<>> THEN DictDel(entry, key) ELSE DictSet(entry, key, kept),
          rebound |-> {key}]

\* a replace without the branch for the empty list: the list is stored as given
ModReplaceStoreAny(entry, key, value) ==
    IF AnyNotBytes(value) THEN [exc |-> "TypeError", attrs |-> entry, rebound |-> {}]
    ELSE [exc |-> "", attrs |-> DictSet(entry, key, value), rebound |-> {key}]

\* op == ldap.MOD_REPLACE
ModReplace(entry, key, value) ==
    IF value = <<>>
    THEN [exc |-> "",
          attrs |-> IF key \in DOMAIN entry THEN DictDel(entry, key) ELSE entry,
          rebound |-> {key}]
    ELSE IF AnyNotBytes(value) THEN [exc |-> "TypeError", attrs |-> entry, rebound |-> {}]
    ELSE [exc |-> "", attrs |-> DictSet(entry, key, value), rebound |-> {key}]

\* one triple (op, key, value) on the entry: lines 296-334; an op that is none
\* of the three changes nothing
ModTriple(entry, item) ==
    LET value == NormValue(item[3]) IN
    CASE item[1] = "MOD_ADD" -> ModAdd(entry, item[2], value)
      [] item[1] = "MOD_DELETE" -> ModDelete(entry, item[2], value)
      [] item[1] = "MOD_REPLACE" -> ModReplace(entry, item[2], value)
      [] OTHER -> [exc |-> "", attrs |-> entry, rebound |-> {}]

\* the loop of _modify_s over mod_attrs: the entry is looked up for every
\* triple, and a triple that raises ends the call with the earlier ones applied
RECURSIVE ModifyLoop(_, _, _, _)
ModifyLoop(dir, res, dn, mod_attrs) ==
    IF mod_attrs = <<>> THEN [exc |-> "", val |-> <<103, <<>>>>, dir |-> dir, res |-> res]
    ELSE IF ~CiHas(dir, dn)
    THEN [exc |-> "NO_SUCH_OBJECT", val |-> None, dir |-> dir, res |-> res]
    ELSE LET k == Lower(dn)
             step == ModTriple(CiGet(dir, dn), Head(mod_attrs))
         IN IF step.exc # ""
            THEN [exc |-> step.exc, val |-> None, dir |-> dir, res |-> res]
            ELSE ModifyLoop([dir EXCEPT ![k].attrs = step.attrs],
                            Touch(res, k, step.attrs, step.rebound),
                            dn, Tail(mod_attrs))

\* a modify that restores the directory when a triple raises
ModifySAtomic(dir, res, dn, mod_attrs) ==
    IF ~ValidDn(dn)
    THEN [exc |-> "INVALID_DN_SYNTAX", val |-> None, dir |-> dir, res |-> res]
    ELSE LET r == ModifyLoop(dir, res, dn, mod_attrs) IN
         IF r.exc # "" THEN [exc |-> r.exc, val |-> None, dir |-> dir, res |-> res]
         ELSE r

ModifyS(dir, res, dn, mod_attrs) ==
    IF ~ValidDn(dn)
    THEN [exc |-> "INVALID_DN_SYNTAX", val |-> None, dir |-> dir, res |-> res]
    ELSE ModifyLoop(dir, res, dn, mod_attrs)

-----------------------------------------------------------------------------
(* _rename_s *)

\* the name, value pair a valid single RDN splits into at '='; any other
\* text makes the two-name unpacking raise ValueError
IsPair(pieces) == Len(pieces) = 2

\* newrdn.split('='): a text of one segment gives that segment's pieces; each
\* further segment of a valid text adds at least one piece
SplitEqText(t) ==
    IF Len(t) = 1 THEN SplitEq(t[1])
    ELSE [i \in 1..(Len(t[1]) + Len(t) - 1) |-> ""]

\* lines 381-390 on the entry: the old RDN value leaves, the new one enters
RenameAttrs(entry, oldattr, oldvalue, newattr, newvalue) ==
    IF oldattr \notin DOMAIN entry
    THEN [exc |-> "KeyError", attrs |-> entry, rebound |-> {}]
    ELSE IF (oldattr = newattr \/ Len(entry[oldattr]) > 1)
            /\ ~InList(oldvalue, entry[oldattr])
    THEN [exc |-> "ValueError", attrs |-> entry, rebound |-> {}]
    ELSE LET removed == oldattr = newattr \/ Len(entry[oldattr]) > 1
             e1 == IF removed
                   THEN DictSet(entry, oldattr, ListRemove(entry[oldattr], oldvalue))
                   ELSE DictDel(entry, oldattr)
             r1 == IF removed THEN {} ELSE {oldattr}
         IN IF newattr \in DOMAIN e1
            THEN [exc |-> "",
                  attrs |-> IF InList(newvalue, e1[newattr]) THEN e1
                            ELSE DictSet(e1, newattr, Append(e1[newattr], newvalue)),
                  rebound |-> r1]
            ELSE [exc |-> "", attrs |-> DictSet(e1, newattr, <<newvalue>>),
                  rebound |-> r1 \cup {newattr}]

\* a new full DN that always stays under the parent of the old DN
NewFullDnSameParent(dn, newrdn, newsuperior) ==
    CommaConcat(newrdn, JoinComma(Tail(SplitComma(dn))))

\* lines 366-371: the new full DN
NewFullDn(dn, newrdn, newsuperior) ==
    LET superior == IF Truthy(newsuperior) THEN newsuperior[1]
                    ELSE JoinComma(Tail(SplitComma(dn)))
    IN CommaConcat(newrdn, superior)

RenameS(dir, res, dn, newrdn, newsuperior) ==
    LET fail(e) == [exc |-> e, val |-> None, dir |-> dir, res |-> res] IN
    IF ~ValidDn(dn) \/ ~ValidDn(newrdn) THEN fail("INVALID_DN_SYNTAX")
    ELSE IF Truthy(newsuperior) /\ ~ValidDn(newsuperior[1]) THEN fail("INVALID_DN_SYNTAX")
    ELSE IF ~CiHas(dir, dn) THEN fail("NO_SUCH_OBJECT")
    ELSE LET newfulldn == NewFullDn(dn, newrdn, newsuperior)
             old == SplitEq(Head(SplitComma(dn)))
             new == SplitEqText(newrdn)
         IN IF CiHas(dir, newfulldn) THEN fail("ALREADY_EXISTS")
            ELSE IF ~IsPair(old) \/ ~IsPair(new) THEN fail("ValueError")
            ELSE LET step == RenameAttrs(CiGet(dir, dn), old[1], Encode(old[2]),
                                         new[1], Encode(new[2]))
                     k == Lower(dn)
                     k2 == Lower(newfulldn)
                 IN IF step.exc # "" THEN fail(step.exc)
                    ELSE [exc |-> "", val |-> <<109, <<>>>>,
                          dir |-> CiDel(CiSet(dir, newfulldn, step.attrs), dn),
                          res |-> Rekey(Touch(res, k, step.attrs, step.rebound), k, k2)]

-----------------------------------------------------------------------------
(* _passwd_s *)

\* a password change that accepts oldpw when it equals any of the stored
\* values
PasswdSAnyValue(dir, res, user, oldpw, newpw) ==
    LET fail(e) == [exc |-> e, val |-> None, dir |-> dir, res |-> res]
        k == Lower(user)
        set == LET e2 == DictSet(CiGet(dir, user), "userPassword", <<newpw>>)
               IN [exc |-> "", val |-> None,
                   dir |-> [dir EXCEPT ![k].attrs = e2],
                   res |-> Touch(res, k, e2, {"userPassword"})]
    IN
    IF ~ValidDn(user) THEN fail("INVALID_DN_SYNTAX")
    ELSE IF ~CiHas(dir, user) THEN fail("NO_SUCH_OBJECT")
    ELSE IF oldpw # None
         THEN LET entry == CiGet(dir, user) IN
              IF "userPassword" \notin DOMAIN entry THEN fail("KeyError")
              ELSE IF InList(oldpw[1], entry["userPassword"]) THEN set
              ELSE [exc |-> "", val |-> None, dir |-> dir, res |-> res]
         ELSE set

\* oldpw is None or <<value>>; newpw is a value, stored as given
PasswdS(dir, res, user, oldpw, newpw) ==
    LET fail(e) == [exc |-> e, val |-> None, dir |-> dir, res |-> res]
        k == Lower(user)
        set == LET e2 == DictSet(CiGet(dir, user), "userPassword", <<newpw>>)
               IN [exc |-> "", val |-> None,
                   dir |-> [dir EXCEPT ![k].attrs = e2],
                   res |-> Touch(res, k, e2, {"userPassword"})]
    IN
    IF ~ValidDn(user) THEN fail("INVALID_DN_SYNTAX")
    ELSE IF ~CiHas(dir, user) THEN fail("NO_SUCH_OBJECT")
    ELSE IF oldpw # None
         THEN LET entry == CiGet(dir, user) IN
              IF "userPassword" \notin DOMAIN entry THEN fail("KeyError")
              ELSE IF entry["userPassword"] = <<>> THEN fail("IndexError")
              ELSE IF entry["userPassword"][1] = oldpw[1] THEN set
              ELSE [exc |-> "", val |-> None, dir |-> dir, res |-> res]
         ELSE set

-----------------------------------------------------------------------------
(* _compare_password, _compare_s, simple_bind_s *)

\* The stored password texts of the model that PASSWORD_RE matches, with the
\* scheme it finds: "{SSHA}pw" is the salted SHA-1 of "pw" under some salt,
\* "{MD5}pw" carries a scheme the method does not know.  Any other text has
\* no scheme ("").  No stored text of the model carries {CRYPT}.
PasswordScheme(value) ==
    CASE value = "{SSHA}pw" -> "SSHA"
      [] value = "{MD5}pw" -> "MD5"
      [] OTHER -> ""

\* lines 232-235: the digest of password with the salt of the stored text
\* equals the stored digest
SshaMatches(password, value) == value = "{SSHA}pw" /\ password = "pw"

\* _compare_password(password, value), both texts
ComparePassword(password, value) ==
    IF PasswordScheme(value) # ""
    THEN IF PasswordScheme(value) = "SSHA" THEN SshaMatches(password, value)
         ELSE FALSE
    ELSE value = password

\* lines 202-209: the stored values are decoded one by one as the search for
\* a match reaches them; decoding a value that is not bytes raises
RECURSIVE ScanValues(_, _, _)
ScanValues(values, attr, value) ==
    IF values = <<>> THEN [exc |-> "", val |-> 0]
    ELSE IF ~IsBytes(Head(values)) THEN [exc |-> "AttributeError", val |-> 0]
    ELSE IF (IF attr = "userPassword" THEN ComparePassword(value, Decode(Head(values)))
             ELSE Decode(Head(values)) = value)
         THEN [exc |-> "", val |-> 1]
         ELSE ScanValues(Tail(values), attr, value)

\* _compare_s(dn, attr, value)
CompareS(dir, dn, attr, value) ==
    IF ~ValidDn(dn) THEN [exc |-> "INVALID_DN_SYNTAX", val |-> 0]
    ELSE IF ~CiHas(dir, dn) THEN [exc |-> "NO_SUCH_OBJECT", val |-> 0]
    ELSE LET entry == CiGet(dir, dn) IN
         ScanValues(IF attr \in DOMAIN entry THEN entry[attr] ELSE <<>>, attr, value)

\* a bind without the except clause: NO_SUCH_OBJECT reaches the caller
SimpleBindSUncaught(dir, who, cred) ==
    IF who = EmptyText /\ cred = "" THEN ""
    ELSE LET c == CompareS(dir, who, "userPassword", cred) IN
         IF c.exc # "" THEN c.exc
         ELSE IF c.val = 1 THEN "" ELSE "INVALID_CREDENTIALS"

\* simple_bind_s(who, cred): the exception raised ("" on success); who is a
\* text, cred a password text
SimpleBindS(dir, who, cred) ==
    IF who = EmptyText /\ cred = "" THEN ""
    ELSE LET c == CompareS(dir, who, "userPassword", cred) IN
         IF c.exc = "NO_SUCH_OBJECT" THEN "INVALID_CREDENTIALS"
         ELSE IF c.exc # "" THEN c.exc
         ELSE IF c.val = 1 THEN "" ELSE "INVALID_CREDENTIALS"

-----------------------------------------------------------------------------
(* mockldap.filter: parse and matches *)

\* A filter string is modelled by its parse: <<"present", attr>> for
\* (attr=*), <<"eq", attr, text>> for (attr=text), <<"not", f>>,
\* <<"and", f, g>>, <<"or", f, g>>, and <<"unsupported">> for a form that
\* parse answers with UnsupportedOp.
FilterSupported(f) == f[1] # "unsupported"

RECURSIVE Matches(_, _)
Matches(f, entry) ==
    CASE f[1] = "present" -> f[2] \in DOMAIN entry
      [] f[1] = "eq" ->
            /\ f[2] \in DOMAIN entry
            /\ \E i \in DOMAIN entry[f[2]] :
                  /\ IsBytes(entry[f[2]][i])
                  /\ IF f[2] = "userPassword"
                     THEN ComparePassword(f[3], Decode(entry[f[2]][i]))
                     ELSE Decode(entry[f[2]][i]) = f[3]
      [] f[1] = "not" -> ~Matches(f[2], entry)
      [] f[1] = "and" -> Matches(f[2], entry) /\ Matches(f[3], entry)
      [] f[1] = "or" -> Matches(f[2], entry) \/ Matches(f[3], entry)
      [] OTHER -> FALSE

-----------------------------------------------------------------------------
(* _search_s *)

\* parts[1:]
PyTail(parts) == IF parts = <<>> THEN <<>> ELSE Tail(parts)

\* parts[-n:] for n >= 0: -0 is 0, so n = 0 gives the whole list, as does an
\* n of the length or more
PyLast(parts, n) ==
    IF n = 0 \/ n >= Len(parts) THEN parts
    ELSE SubSeq(parts, Len(parts) - n + 1, Len(parts))

\* lines 256-261: the test of the scope on the parts of a key
InScope(scope, parts, base_parts) ==
    CASE scope = "SCOPE_BASE" -> parts = base_parts
      [] scope = "SCOPE_ONELEVEL" -> PyTail(parts) = base_parts
      [] scope = "SCOPE_SUBTREE" -> PyLast(parts, Len(base_parts)) = base_parts

KnownScope(scope) == scope \in {"SCOPE_BASE", "SCOPE_ONELEVEL", "SCOPE_SUBTREE"}

\* lines 271-281: the result item for the entry under key k.  attrlist is
\* None or <<set of names>>, attrsonly is 0 or 1.
ResultItem(dir, k, attrlist, attrsonly) ==
    LET attrs == dir[k].attrs
        kept == IF attrlist = None THEN DOMAIN attrs ELSE DOMAIN attrs \cap attrlist[1]
    IN IF attrsonly # 0
       THEN [dn |-> dir[k].dn, key |-> None, whole |-> FALSE, live |-> {},
             val |-> [a \in kept |-> <<>>]]
       ELSE IF attrlist = None
       THEN [dn |-> dir[k].dn, key |-> Some(k), whole |-> TRUE, live |-> {},
             val |-> attrs]
       ELSE [dn |-> dir[k].dn, key |-> IF kept = {} THEN None ELSE Some(k),
             whole |-> FALSE, live |-> kept, val |-> [a \in kept |-> attrs[a]]]

\* lines 251-283: the search below a base that the directory holds
SearchScoped(dir, base, scope, filterstr, attrlist, attrsonly) ==
    IF \E k \in DOMAIN dir : ~ValidDn(Lower(dir[k].dn))
    THEN [exc |-> "DECODING_ERROR", items |-> {}]
    ELSE IF ~KnownScope(scope) THEN [exc |-> "ValueError", items |-> {}]
    ELSE IF ~FilterSupported(filterstr) THEN [exc |-> "SeedRequired", items |-> {}]
    ELSE LET base_parts == ExplodeDn(Lower(base))
             dns == {k \in DOMAIN dir :
                        InScope(scope, ExplodeDn(Lower(dir[k].dn)), base_parts)}
         IN [exc |-> "",
             items |-> {ResultItem(dir, k, attrlist, attrsonly) :
                          k \in {d \in dns : Matches(filterstr, dir[d].attrs)}}]

\* a search that does not look its base up
SearchSAnyBase(dir, base, scope, filterstr, attrlist, attrsonly) ==
    IF ~ValidDn(base) THEN [exc |-> "INVALID_DN_SYNTAX", items |-> {}]
    ELSE SearchScoped(dir, base, scope, filterstr, attrlist, attrsonly)

\* _search_s(base, scope, filterstr, attrlist, attrsonly): the exception
\* raised, or the items of the list returned
SearchS(dir, base, scope, filterstr, attrlist, attrsonly) ==
    IF ~ValidDn(base) THEN [exc |-> "INVALID_DN_SYNTAX", items |-> {}]
    ELSE IF ~CiHas(dir, base) THEN [exc |-> "NO_SUCH_OBJECT", items |-> {}]
    ELSE SearchScoped(dir, base, scope, filterstr, attrlist, attrsonly)

-----------------------------------------------------------------------------
(* The values the methods are called with *)

B(s) == <<"bytes", s>>

S(s) == <<"str", s>>

T_Root == EmptyText

T_Com == << <<"dc", "com">> >>

T_Alice == << <<"cn", "alice">>, <<"dc", "com">> >>

T_AliceUC == << <<"CN", "alice">>, <<"DC", "com">> >>

T_Al == << <<"cn", "al">>, <<"dc", "com">> >>

T_Sub == << <<"cn", "al">>, <<"cn", "alice">>, <<"dc", "com">> >>

T_Bad == << <<"bogus">> >>

T_Trail == << <<"cn", "al">>, <<"">> >>

R_Al == << <<"cn", "al">> >>

R_AliceUC == << <<"CN", "alice">> >>

R_Sn == << <<"sn", "al">> >>

\* the directories an LDAPObject is constructed from (dicts: the keys reach
\* the cidict lowered)
SeedAlice2 ==
    [a \in {"cn", "userPassword"} |->
        IF a = "cn" THEN <<B("alice"), B("al")>> ELSE <<B("{SSHA}pw")>>]

SeedAlice1 ==
    [a \in {"cn", "userPassword"} |->
        IF a = "cn" THEN <<B("alice")>> ELSE <<B("pw2"), B("pw")>>]

SeedCom == [a \in {"dc"} |-> <<B("com")>>]

SeedSub == [a \in {"cn"} |-> <<B("al")>>]

Seeds ==
    { EmptyDict,
      CiSet(CiSet(EmptyDict, T_Com, SeedCom), T_Alice, SeedAlice2),
      CiSet(CiSet(CiSet(CiSet(EmptyDict, T_Root, EmptyDict), T_Com, SeedCom),
                  T_Alice, SeedAlice1), T_Sub, SeedSub) }

DnArgs == {T_Root, T_Com, T_Alice, T_AliceUC, T_Bad}

AddRecords ==
    { << <<"cn", <<B("alice")>> >> >>,
      << <<"cn", <<>> >> >>,
      << <<"cn", <<S("al")>> >> >>,
      << <<"cn", <<B("al")>> >>, <<"userPassword", <<B("pw")>> >> >> }

AddArgs ==
    ({T_AliceUC, T_Al, T_Root, T_Bad} \X AddRecords)
    \cup {<<T_Trail, << <<"cn", <<B("al")>> >> >> >>}

ModValues ==
    { <<"none">>, <<"list", <<B("al")>> >>, <<"list", <<B("bob"), B("al")>> >>,
      <<"list", <<S("al")>> >> }

ModTriples ==
    ({"MOD_ADD", "MOD_DELETE", "MOD_REPLACE"} \X {"cn", "sn"} \X ModValues)
    \cup { <<"MOD_INCREMENT", "cn", <<"list", <<B("al")>> >> >>,
           <<"MOD_ADD", "cn", <<"scalar", B("al")>> >>,
           <<"MOD_ADD", "sn", <<"list", <<B("al"), B("al")>> >> >>,
           <<"MOD_REPLACE", "CN", <<"list", <<B("al")>> >> >>,
           <<"MOD_REPLACE", "cn", <<"list", <<>> >> >>,
           <<"MOD_REPLACE", "sn", <<"list", <<B("al"), B("al")>> >> >> }

PairTriples ==
    { <<"MOD_ADD", "sn", <<"list", <<B("al")>> >> >>,
      <<"MOD_ADD", "cn", <<"none">> >>,
      <<"MOD_REPLACE", "cn", <<"list", <<B("bob")>> >> >> }

ModLists ==
    {<<>>} \cup {<<t>> : t \in ModTriples}
           \cup {<<t, u>> : t \in PairTriples, u \in PairTriples}

FewModLists == {<<>>, << <<"MOD_ADD", "sn", <<"list", <<B("al")>> >> >> >>}

ModifyArgs ==
    ({T_Alice} \X ModLists) \cup ({T_Al, T_AliceUC, T_Bad} \X FewModLists)

RenameArgs ==
    ({T_Com, T_Alice, T_Sub} \X {R_Al, R_AliceUC, R_Sn}
        \X {None, Some(T_Com), Some(T_Alice)})
    \cup { <<T_Bad, R_Al, None>>, <<T_Alice, T_Bad, None>>,
           <<T_Alice, R_Al, Some(T_Bad)>>, <<T_Alice, T_Al, None>>,
           <<T_Root, R_Al, None>>, <<T_Al, R_Sn, None>>,
           <<T_Alice, R_Al, Some(EmptyText)>>, <<T_AliceUC, R_Al, None>>,
           <<T_AliceUC, R_AliceUC, Some(T_Com)>>, <<T_Trail, R_Sn, None>> }

PasswdArgs ==
    ({T_Alice} \X {None, Some(B("pw2")), Some(B("{SSHA}pw")), Some(S("pw2"))}
        \X {B("new"), B("{SSHA}pw")})
    \cup ({T_Com, T_Al, T_Bad} \X {None} \X {B("new")})
    \cup ({T_Com, T_Alice} \X {Some(B("pw"))} \X {B("new")})
    \cup {<<T_Alice, None, S("new")>>}

BindArgs == {T_Root, T_Alice, T_AliceUC, T_Al, T_Bad} \X {"", "pw", "new"}

CompareArgs ==
    ({T_Alice, T_AliceUC} \X {"cn", "userPassword"} \X {"al", "pw"})
    \cup ({T_Al, T_Bad} \X {"cn"} \X {"al"})

Filters == { <<"present", "cn">>, <<"eq", "cn", "al">>, <<"unsupported">> }

Scopes == {"SCOPE_BASE", "SCOPE_ONELEVEL", "SCOPE_SUBTREE", "SCOPE_SUBORDINATE"}

Projections ==
    {T_Com} \X {"SCOPE_SUBTREE"} \X {<<"present", "cn">>}
        \X {<<None, 1>>, <<Some({"cn"}), 0>>, <<Some({"cn", "sn"}), 1>>}

SearchArgs ==
    {<<a[1], a[2], a[3], None, 0>> :
        a \in ({T_Root, T_Com} \X Scopes \X Filters)
              \cup ({T_AliceUC, T_Al} \X Scopes
                       \X {<<"present", "cn">>, <<"unsupported">>})
              \cup {<<T_Bad, "SCOPE_BASE", <<"present", "cn">> >>}}
    \cup {<<a[1], a[2], a[3], a[4][1], a[4][2]>> : a \in Projections}

SearchSArgs ==
    {<<a[1], a[2], a[3], None, 0>> :
        a \in {T_Root, T_Com, T_Al} \X {"SCOPE_ONELEVEL", "SCOPE_SUBTREE"}
              \X {<<"not", <<"present", "cn">> >>}}
    \cup {<<a[1], a[2], a[3], a[4][1], a[4][2]>> : a \in Projections}

MsgIds == {-1, 0, 1, 2}

OptionNames == {"OPT_A"}

OptionValues == {0, 1}

-----------------------------------------------------------------------------
(* The state after construction, and one action per method *)

Init ==
    /\ directory \in Seeds
    /\ async_results = <<>>
    /\ options = EmptyDict
    /\ tls_enabled = FALSE
    /\ bound_as = None
    /\ ncalls = 0
    /\ ret = [op |-> "__init__", args |-> <<>>, exc |-> "", val |-> None]

\* _add_async_result(value): the list after the append, and the msgid returned
AddAsyncResult(res, value) == [res |-> Append(res, value), msgid |-> Len(res)]

\* a fetch that hands the slot's value out and leaves it in the slot
PopAsyncResultKeep(res, msgid) ==
    IF msgid \in 0..(Len(res) - 1)
    THEN [value |-> res[msgid + 1], res |-> res]
    ELSE [value |-> None, res |-> res]

\* _pop_async_result(msgid): the value returned, and the list with the slot
\* emptied
PopAsyncResult(res, msgid) ==
    IF msgid \in 0..(Len(res) - 1)
    THEN [value |-> res[msgid + 1], res |-> [res EXCEPT ![msgid + 1] = None]]
    ELSE [value |-> None, res |-> res]

\* a bind that records who before the credential is verified
BoundAfterBindAlways(bound, exc, who) == Some(who)

\* lines 102-106: bound_as after simple_bind_s(who, cred) ended with exc
BoundAfterBind(bound, exc, who) == IF exc = "" THEN Some(who) ELSE bound

\* @recorded: the call is recorded before the method body runs
Recorded == ncalls' = ncalls + 1

Returned(op, args, exc, val) == ret' = [op |-> op, args |-> args, exc |-> exc, val |-> val]

\* initialize(*args, **kwargs): recorded, the body is pass
initialize ==
    /\ Recorded
    /\ Returned("initialize", <<>>, "", None)
    /\ UNCHANGED <<directory, async_results, options, tls_enabled, bound_as>>

\* sasl_external_bind_s(...): recorded, the body is pass
sasl_external_bind_s ==
    /\ Recorded
    /\ Returned("sasl_external_bind_s", <<>>, "", None)
    /\ UNCHANGED <<directory, async_results, options, tls_enabled, bound_as>>

get_option(option) ==
    /\ Recorded
    /\ IF option \in DOMAIN options
       THEN Returned("get_option", <<option>>, "", options[option])
       ELSE Returned("get_option", <<option>>, "KeyError", None)
    /\ UNCHANGED <<directory, async_results, options, tls_enabled, bound_as>>

set_option(option, invalue) ==
    /\ Recorded
    /\ options' = DictSet(options, option, invalue)
    /\ Returned("set_option", <<option, invalue>>, "", None)
    /\ UNCHANGED <<directory, async_results, tls_enabled, bound_as>>

simple_bind_s(who, cred) ==
    /\ Recorded
    /\ LET exc == SimpleBindS(directory, who, cred) IN
       /\ bound_as' = BoundAfterBind(bound_as, exc, who)
       /\ Returned("simple_bind_s", <<who, cred>>, exc,
                   IF exc = "" THEN <<97, <<>>>> ELSE None)
    /\ UNCHANGED <<directory, async_results, options, tls_enabled>>

\* a search that takes its slot in the table before it runs
searchSlotFirst(base, scope, filterstr, attrlist, attrsonly) ==
    /\ Recorded
    /\ LET r == SearchS(directory, base, scope, filterstr, attrlist, attrsonly)
           a == AddAsyncResult(async_results,
                               IF r.exc # "" THEN None ELSE Some(r.items))
       IN /\ async_results' = a.res
          /\ Returned("search", <<base, scope, filterstr, attrlist, attrsonly>>, r.exc,
                      IF r.exc # "" THEN None ELSE a.msgid)
    /\ UNCHANGED <<directory, options, tls_enabled, bound_as>>

search(base, scope, filterstr, attrlist, attrsonly) ==
    /\ Recorded
    /\ LET r == SearchS(directory, base, scope, filterstr, attrlist, attrsonly) IN
       IF r.exc # ""
       THEN /\ Returned("search", <<base, scope, filterstr, attrlist, attrsonly>>, r.exc, None)
            /\ UNCHANGED async_results
       ELSE LET a == AddAsyncResult(async_results, Some(r.items)) IN
            /\ async_results' = a.res
            /\ Returned("search", <<base, scope, filterstr, attrlist, attrsonly>>, "",
                        a.msgid)
    /\ UNCHANGED <<directory, options, tls_enabled, bound_as>>

\* result(msgid) with _pop_async_result
result(msgid) ==
    /\ Recorded
    /\ LET p == PopAsyncResult(async_results, msgid) IN
       /\ async_results' = p.res
       /\ Returned("result", <<msgid>>, "",
                   <<"RES_SEARCH_RESULT",
                     IF p.value = None THEN None ELSE Some(Visible(p.value[1]))>>)
    /\ UNCHANGED <<directory, options, tls_enabled, bound_as>>

search_s(base, scope, filterstr, attrlist, attrsonly) ==
    /\ Recorded
    /\ LET r == SearchS(directory, base, scope, filterstr, attrlist, attrsonly) IN
       Returned("search_s", <<base, scope, filterstr, attrlist, attrsonly>>, r.exc,
                IF r.exc # "" THEN None ELSE Some(Visible(r.items)))
    /\ UNCHANGED <<directory, async_results, options, tls_enabled, bound_as>>

start_tls_s ==
    /\ Recorded
    /\ tls_enabled' = TRUE
    /\ Returned("start_tls_s", <<>>, "", None)
    /\ UNCHANGED <<directory, async_results, options, bound_as>>

\* a compare that takes the attribute out of the entry to read its values
compare_sPopping(dn, attr, value) ==
    /\ Recorded
    /\ LET r == CompareS(directory, dn, attr, value) IN
       Returned("compare_s", <<dn, attr, value>>, r.exc, r.val)
    /\ directory' = IF ValidDn(dn) /\ CiHas(directory, dn)
                    THEN [directory EXCEPT ![Lower(dn)].attrs =
                              DictDel(CiGet(directory, dn), attr)]
                    ELSE directory
    /\ UNCHANGED <<async_results, options, tls_enabled, bound_as>>

compare_s(dn, attr, value) ==
    /\ Recorded
    /\ LET r == CompareS(directory, dn, attr, value) IN
       Returned("compare_s", <<dn, attr, value>>, r.exc, r.val)
    /\ UNCHANGED <<directory, async_results, options, tls_enabled, bound_as>>

modify_s(dn, mod_attrs) ==
    /\ Recorded
    /\ LET r == ModifyS(directory, async_results, dn, mod_attrs) IN
       /\ directory' = r.dir
       /\ async_results' = r.res
       /\ Returned("modify_s", <<dn, mod_attrs>>, r.exc, r.val)
    /\ UNCHANGED <<options, tls_enabled, bound_as>>

add_s(dn, record) ==
    /\ Recorded
    /\ LET r == AddS(directory, ncalls', dn, record) IN
       /\ directory' = r.dir
       /\ Returned("add_s", <<dn, record>>, r.exc, r.val)
    /\ UNCHANGED <<async_results, options, tls_enabled, bound_as>>

rename_s(dn, newrdn, newsuperior) ==
    /\ Recorded
    /\ LET r == RenameS(directory, async_results, dn, newrdn, newsuperior) IN
       /\ directory' = r.dir
       /\ async_results' = r.res
       /\ Returned("rename_s", <<dn, newrdn, newsuperior>>, r.exc, r.val)
    /\ UNCHANGED <<options, tls_enabled, bound_as>>

delete_s(dn) ==
    /\ Recorded
    /\ LET r == DeleteS(directory, async_results, dn) IN
       /\ directory' = r.dir
       /\ async_results' = r.res
       /\ Returned("delete_s", <<dn>>, r.exc, r.val)
    /\ UNCHANGED <<options, tls_enabled, bound_as>>

\* unbind and unbind_s have the same body
unbind ==
    /\ Recorded
    /\ bound_as' = None
    /\ Returned("unbind", <<>>, "", None)
    /\ UNCHANGED <<directory, async_results, options, tls_enabled>>

whoami_s ==
    /\ Recorded
    /\ IF bound_as = None
       THEN Returned("whoami_s", <<>>, "TypeError", None)
       ELSE Returned("whoami_s", <<>>, "", <<"dn:", bound_as[1]>>)
    /\ UNCHANGED <<directory, async_results, options, tls_enabled, bound_as>>

passwd_s(user, oldpw, newpw) ==
    /\ Recorded
    /\ LET r == PasswdS(directory, async_results, user, oldpw, newpw) IN
       /\ directory' = r.dir
       /\ async_results' = r.res
       /\ Returned("passwd_s", <<user, oldpw, newpw>>, r.exc, r.val)
    /\ UNCHANGED <<options, tls_enabled, bound_as>>

\* the methods, each on the values above, while the run is within its bound
Next ==
    \/ ncalls < MaxCalls /\ initialize
    \/ ncalls < MaxCalls /\ sasl_external_bind_s
    \/ \E o \in OptionNames : ncalls < MaxCalls /\ get_option(o)
    \/ \E o \in OptionNames, v \in OptionValues : ncalls < MaxCalls /\ set_option(o, v)
    \/ \E a \in BindArgs : ncalls < MaxCalls /\ simple_bind_s(a[1], a[2])
    \/ \E a \in SearchArgs : ncalls < MaxCalls /\ search(a[1], a[2], a[3], a[4], a[5])
    \/ \E m \in MsgIds : ncalls < MaxCalls /\ result(m)
    \/ \E a \in SearchSArgs : ncalls < MaxCalls /\ search_s(a[1], a[2], a[3], a[4], a[5])
    \/ ncalls < MaxCalls /\ start_tls_s
    \/ \E a \in CompareArgs : ncalls < MaxCalls /\ compare_s(a[1], a[2], a[3])
    \/ \E a \in ModifyArgs : ncalls < MaxCalls /\ modify_s(a[1], a[2])
    \/ \E a \in AddArgs : ncalls < MaxCalls /\ add_s(a[1], a[2])
    \/ \E a \in RenameArgs : ncalls < MaxCalls /\ rename_s(a[1], a[2], a[3])
    \/ \E d \in DnArgs : ncalls < MaxCalls /\ delete_s(d)
    \/ ncalls < MaxCalls /\ unbind
    \/ ncalls < MaxCalls /\ whoami_s
    \/ \E a \in PasswdArgs : ncalls < MaxCalls /\ passwd_s(a[1], a[2], a[3])

Spec == Init /\ [][Next]_vars

-----------------------------------------------------------------------------
(* Longer runs of searches and fetches, with the calls that change the     *)
(* directory in between                                                    *)

AsyncSearchArgs ==
    { <<T_Com, "SCOPE_SUBTREE", <<"present", "cn">>, None, 0>>,
      <<T_Com, "SCOPE_ONELEVEL", <<"present", "cn">>, Some({"cn"}), 0>>,
      <<T_AliceUC, "SCOPE_BASE", <<"eq", "cn", "bob">>, None, 0>>,
      <<T_Al, "SCOPE_BASE", <<"present", "cn">>, None, 0>> }

AsyncModifyArgs ==
    { <<T_Alice, << <<"MOD_REPLACE", "cn", <<"list", <<B("bob")>> >> >> >> >>,
      <<T_Alice, << <<"MOD_ADD", "cn", <<"list", <<B("bob")>> >> >> >> >> }

NextAsync ==
    \/ \E a \in AsyncSearchArgs :
          ncalls < MaxAsyncCalls /\ search(a[1], a[2], a[3], a[4], a[5])
    \/ \E m \in MsgIds : ncalls < MaxAsyncCalls /\ result(m)
    \/ \E a \in AsyncModifyArgs : ncalls < MaxAsyncCalls /\ modify_s(a[1], a[2])
    \/ ncalls < MaxAsyncCalls /\ add_s(T_Al, << <<"cn", <<B("al")>> >> >>)
    \/ ncalls < MaxAsyncCalls /\ rename_s(T_Alice, R_Al, None)
    \/ ncalls < MaxAsyncCalls /\ delete_s(T_Alice)
    \/ ncalls < MaxAsyncCalls /\ passwd_s(T_Alice, None, B("new"))
    \/ ncalls < MaxAsyncCalls
          /\ search_s(T_Com, "SCOPE_SUBTREE", <<"present", "cn">>, None, 0)

SpecAsync == Init /\ [][NextAsync]_vars

-----------------------------------------------------------------------------
(* The entries of the directory hold no attribute with an empty list *)

\* C1: in every state reached from a seed without empty value lists by
\* add, modify, delete, rename and passwd calls, no entry holds an attribute
\* whose value list is empty.
C1_NoEmptyValueList ==
    \A k \in DOMAIN directory :
        \A a \in DOMAIN directory[k].attrs : directory[k].attrs[a] # <<>>

-----------------------------------------------------------------------------
(* DN uniqueness up to letter case *)

\* the store holds an entry whose DN equals dn up to letter case
HoldsUpToCase(dir, dn) == \E k \in DOMAIN dir : Lower(dir[k].dn) = Lower(dn)

\* no two keys of the store differ only in case
KeysUniqueUpToCase ==
    \A k1, k2 \in DOMAIN directory :
        Lower(directory[k1].dn) = Lower(directory[k2].dn) => k1 = k2

\* the step is a call of add_s on a DN the store holds up to letter case
AddOnHeldDn ==
    /\ ncalls' = ncalls + 1
    /\ ret'.op = "add_s"
    /\ HoldsUpToCase(directory, ret'.args[1])

\* C2: add_s on a valid DN that the store already holds up to letter case
\* fails ALREADY_EXISTS whatever the record is, and the store never holds two
\* keys that differ only in case.
C2_AddHeldDnAlreadyExists ==
    /\ [][(AddOnHeldDn /\ ValidDn(ret'.args[1]))
            => ret'.exc = "ALREADY_EXISTS"]_vars
    /\ []KeysUniqueUpToCase

-----------------------------------------------------------------------------
(* Search tickets *)

\* C3: a ticket is used once and never again.  In every step: search
\* returns the next free index and appends a slot holding its results; result
\* on an issued ticket returns what its slot holds and empties the slot, so
\* that it returns the results on the first fetch and None on every later
\* one; result on a ticket never issued (negative or too large) returns None,
\* raises nothing and changes no slot; an emptied slot stays empty, a full
\* slot is emptied by a fetch of its own ticket alone, and no slot is ever
\* removed.
C3_TicketsSingleUse ==
    [][LET n == Len(async_results) IN
       /\ Len(async_results') =
             IF ret'.op = "search" /\ ret'.exc = "" THEN n + 1 ELSE n
       /\ \A i \in 1..n :
             /\ async_results[i] = None => async_results'[i] = None
             /\ (async_results[i] # None /\ async_results'[i] = None)
                   => (ret'.op = "result" /\ ret'.args = <<i - 1>>)
       /\ (ret'.op = "search" /\ ret'.exc = "")
             => (ret'.val = n /\ async_results'[n + 1] # None)
       /\ ret'.op = "result" =>
             LET m == ret'.args[1] IN
             /\ ret'.exc = ""
             /\ ret'.val[1] = "RES_SEARCH_RESULT"
             /\ IF m \in 0..(n - 1)
                THEN /\ ret'.val[2] =
                          IF async_results[m + 1] = None THEN None
                          ELSE Some(Visible(async_results[m + 1][1]))
                     /\ async_results' = [async_results EXCEPT ![m + 1] = None]
                ELSE /\ ret'.val[2] = None
                     /\ async_results' = async_results]_vars

\* the second fetch of ticket 0 returned None while ticket 1, issued
\* in between, still holds its results
C3_Witness ==
    /\ ret.op = "result"
    /\ ret.args = <<0>>
    /\ ret.val[2] = None
    /\ Len(async_results) = 2
    /\ async_results[1] = None
    /\ async_results[2] # None
    /\ ncalls = 4

-----------------------------------------------------------------------------
(* Search *)

\* the step is a call of search or search_s
SearchStep == ncalls' = ncalls + 1 /\ ret'.op \in {"search", "search_s"}

\* C4: a search (search or search_s) whose base is a valid DN that the
\* directory does not hold, under any letter case, fails NO_SUCH_OBJECT
\* whatever the scope and the filter are (an unknown scope and a filter the
\* engine does not support included), and issues no ticket.
C4_AbsentBaseNoSuchObject ==
    [][(/\ SearchStep
        /\ ValidDn(ret'.args[1])
        /\ ~HoldsUpToCase(directory, ret'.args[1]))
       => (ret'.exc = "NO_SUCH_OBJECT" /\ async_results' = async_results)]_vars

\* a search of an absent base with an unknown scope and an unsupported
\* filter failed NO_SUCH_OBJECT on a directory that holds entries
C4_Witness ==
    /\ ret.op = "search"
    /\ ret.exc = "NO_SUCH_OBJECT"
    /\ ret.args[1] = T_Al
    /\ ret.args[2] = "SCOPE_SUBORDINATE"
    /\ ret.args[3] = <<"unsupported">>
    /\ directory # EmptyDict
    /\ ~HoldsUpToCase(directory, T_Al)

\* the scope relations as the claim words them, on the lowered components of
\* a DN and of the base: the root DN has no component
RelatedInScope(scope, parts, base_parts) ==
    CASE scope = "SCOPE_BASE" -> parts = base_parts
      [] scope = "SCOPE_ONELEVEL" ->
            (parts = <<>> /\ base_parts = <<>>)
            \/ (parts # <<>> /\ Tail(parts) = base_parts)
      [] scope = "SCOPE_SUBTREE" ->
            /\ Len(parts) >= Len(base_parts)
            /\ SubSeq(parts, Len(parts) - Len(base_parts) + 1, Len(parts)) = base_parts

\* C5: a search_s with a base the directory holds, one of the three scopes
\* and a supported filter returns the (dn, attributes) pairs of exactly the
\* entries that match the filter and whose DN stands in the scope relation to
\* the base: base = the same DN up to case, one level = the DN less its first
\* component is the base, subtree = the base or a descendant of it.
C5_SearchReturnsScope ==
    [][(/\ ncalls' = ncalls + 1
        /\ ret'.op = "search_s"
        /\ ret'.args[4] = None /\ ret'.args[5] = 0
        /\ ValidDn(ret'.args[1])
        /\ HoldsUpToCase(directory, ret'.args[1])
        /\ KnownScope(ret'.args[2])
        /\ FilterSupported(ret'.args[3]))
       => /\ ret'.exc = ""
          /\ ret'.val =
               Some({<<directory[k].dn, directory[k].attrs>> :
                       k \in {d \in DOMAIN directory :
                                 /\ RelatedInScope(ret'.args[2],
                                                   ExplodeDn(Lower(directory[d].dn)),
                                                   ExplodeDn(Lower(ret'.args[1])))
                                 /\ Matches(ret'.args[3], directory[d].attrs)}})]_vars

-----------------------------------------------------------------------------
(* Bind *)

\* the step is a call of simple_bind_s
BindStep == ncalls' = ncalls + 1 /\ ret'.op = "simple_bind_s"

\* the userPassword values of the entry the directory holds for who, none if
\* it holds no such entry or the entry has no userPassword
StoredPasswords(dir, who) ==
    IF HoldsUpToCase(dir, who) /\ "userPassword" \in DOMAIN dir[Lower(who)].attrs
    THEN dir[Lower(who)].attrs["userPassword"]
    ELSE <<>>

\* who names an entry one of whose userPassword values verifies against cred
SomeValueVerifies(dir, who, cred) ==
    \E i \in DOMAIN StoredPasswords(dir, who) :
        /\ IsBytes(StoredPasswords(dir, who)[i])
        /\ ComparePassword(cred, Decode(StoredPasswords(dir, who)[i]))

\* C6 as stated: simple_bind_s succeeds exactly when who and cred are both
\* empty, or who names an entry one of whose userPassword values verifies
\* against cred; in every other case it fails INVALID_CREDENTIALS.
C6_BindSucceedsOrInvalidCredentials ==
    [][BindStep =>
         ret'.exc =
           IF \/ (ret'.args[1] = EmptyText /\ ret'.args[2] = "")
              \/ SomeValueVerifies(directory, ret'.args[1], ret'.args[2])
           THEN ""
           ELSE "INVALID_CREDENTIALS"]_vars

\* C6, amended: with the stored userPassword values of the entry all bytes,
\* simple_bind_s succeeds (returning (97, [])) exactly when who and cred are
\* both empty, or who is a valid DN naming an entry one of whose userPassword
\* values verifies against cred; otherwise it fails INVALID_DN_SYNTAX when
\* who is not a valid DN, and INVALID_CREDENTIALS, never NO_SUCH_OBJECT, in
\* every other case, the entry being absent included.
C6_BindOutcome ==
    [][(/\ BindStep
        /\ \A i \in DOMAIN StoredPasswords(directory, ret'.args[1]) :
              IsBytes(StoredPasswords(directory, ret'.args[1])[i]))
       => /\ ret'.exc =
               IF ret'.args[1] = EmptyText /\ ret'.args[2] = "" THEN ""
               ELSE IF ~ValidDn(ret'.args[1]) THEN "INVALID_DN_SYNTAX"
               ELSE IF SomeValueVerifies(directory, ret'.args[1], ret'.args[2])
                    THEN ""
                    ELSE "INVALID_CREDENTIALS"
          /\ ret'.exc = "" => ret'.val = <<97, <<>>>>]_vars

\* a bind as "CN=alice,DC=com" with "pw" succeeded against the salted hash
\* stored for cn=alice,dc=com
C6_Witness ==
    /\ ret.op = "simple_bind_s"
    /\ ret.exc = ""
    /\ ret.args = <<T_AliceUC, "pw">>
    /\ StoredPasswords(directory, T_AliceUC) = <<B("{SSHA}pw")>>

\* C7: bound_as is None until a bind succeeds; a successful simple_bind_s
\* sets it to the identity it was called with, a failed one leaves it as it
\* was, unbind sets it to None, and no other call changes it: so it is the
\* identity of the latest successful bind since construction or the last
\* unbind, None if there is none.
C7_BoundAsLastSuccessfulBind ==
    /\ [](ncalls = 0 => bound_as = None)
    /\ [][bound_as' =
             IF ret'.op = "simple_bind_s" /\ ret'.exc = "" THEN Some(ret'.args[1])
             ELSE IF ret'.op = "unbind" THEN None
             ELSE bound_as]_vars

\* a bind as an absent identity failed after a bind as cn=alice,dc=com had
\* succeeded, and bound_as is still cn=alice,dc=com
C7_Witness ==
    /\ ret.op = "simple_bind_s"
    /\ ret.exc = "INVALID_CREDENTIALS"
    /\ ret.args[1] = T_Al
    /\ bound_as = Some(T_Alice)

-----------------------------------------------------------------------------
(* Modify *)

\* the number of occurrences of v in the list l
Count(v, l) == Cardinality({i \in DOMAIN l : l[i] = v})

\* the index of the first occurrence of v in the list l, which holds it
FirstIndex(v, l) == CHOOSE i \in DOMAIN l : l[i] = v /\ \A j \in 1..(i - 1) : l[j] # v

\* new is old followed by the values of given that old does not hold, each
\* once, in the order in which given first names them
IsUnionAppend(old, given, new) ==
    /\ Len(new) >= Len(old)
    /\ SubSeq(new, 1, Len(old)) = old
    /\ \A i \in DOMAIN given : InList(given[i], new)
    /\ \A i \in (Len(old) + 1)..Len(new) :
          /\ InList(new[i], given)
          /\ ~InList(new[i], old)
          /\ \A j \in (Len(old) + 1)..(i - 1) :
                /\ new[j] # new[i]
                /\ FirstIndex(new[j], given) < FirstIndex(new[i], given)

\* the step is a modify_s of an entry the directory holds whose list is one
\* MOD_ADD triple of byte values, given once or twice
AddTwiceStep ==
    /\ ncalls' = ncalls + 1
    /\ ret'.op = "modify_s"
    /\ ValidDn(ret'.args[1])
    /\ HoldsUpToCase(directory, ret'.args[1])
    /\ Len(ret'.args[2]) \in {1, 2}
    /\ \A i \in DOMAIN ret'.args[2] : ret'.args[2][i] = ret'.args[2][1]
    /\ ret'.args[2][1][1] = "MOD_ADD"
    /\ NormValue(ret'.args[2][1][3]) # <<>>
    /\ ~AnyNotBytes(NormValue(ret'.args[2][1][3]))

\* what such a step does, whatever the entry held: it succeeds, changes only
\* the attribute named, sets that attribute to the given list if the entry
\* lacked it and else appends the given values it does not hold yet, and
\* changes nothing when the call before it was the same successful modify_s
AddTwiceEffect ==
    LET k == Lower(ret'.args[1])
        attr == ret'.args[2][1][2]
        given == NormValue(ret'.args[2][1][3])
        old == directory[k].attrs
        new == directory'[k].attrs
    IN /\ ret'.exc = ""
       /\ ret'.val = <<103, <<>>>>
       /\ DOMAIN directory' = DOMAIN directory
       /\ \A j \in DOMAIN directory \ {k} : directory'[j] = directory[j]
       /\ directory'[k].dn = directory[k].dn
       /\ DOMAIN new = DOMAIN old \cup {attr}
       /\ \A a \in DOMAIN old \ {attr} : new[a] = old[a]
       /\ IF attr \in DOMAIN old THEN IsUnionAppend(old[attr], given, new[attr])
          ELSE new[attr] = given
       /\ (ret.op = "modify_s" /\ ret.exc = "" /\ ret.args = ret'.args)
             => directory' = directory

\* the occurrences of the single given value v in the attribute before and
\* after the step
GivenOneValue == Len(NormValue(ret'.args[2][1][3])) = 1

OccurrencesBefore ==
    LET k == Lower(ret'.args[1])
        attr == ret'.args[2][1][2]
    IN IF attr \in DOMAIN directory[k].attrs
       THEN Count(NormValue(ret'.args[2][1][3])[1], directory[k].attrs[attr])
       ELSE 0

OccurrencesAfter ==
    Count(NormValue(ret'.args[2][1][3])[1],
          directory'[Lower(ret'.args[1])].attrs[ret'.args[2][1][2]])

\* C8: MOD_ADD attr=[v] applied twice, in one modify_s or in two,
\* to any entry the directory holds leaves exactly one occurrence of v in attr
\* and the second application changes nothing; a MOD_ADD on an attribute the
\* entry has appends only the given values it does not hold and keeps the
\* values it holds in order.
C8_AddTwiceOneOccurrence ==
    [][AddTwiceStep =>
         /\ AddTwiceEffect
         /\ GivenOneValue => OccurrencesAfter = 1]_vars

\* what holds of MOD_ADD on every entry: the same, the single occurrence
\* holding for an attribute that held v at most once before; MOD_ADD does not
\* remove the repeats of v an attribute already holds.
C8_AddTwiceNoNewOccurrence ==
    [][AddTwiceStep =>
         /\ AddTwiceEffect
         /\ (GivenOneValue /\ OccurrencesBefore <= 1) => OccurrencesAfter = 1
         /\ GivenOneValue => OccurrencesAfter = IF OccurrencesBefore = 0 THEN 1
                                                ELSE OccurrencesBefore]_vars

\* one modify_s applied MOD_ADD sn=[al] twice to cn=alice,dc=com, which had
\* no sn, and sn is [al]
AddTwiceApplied ==
    /\ ret.op = "modify_s"
    /\ ret.exc = ""
    /\ ret.args[1] = T_Alice
    /\ ret.args[2] = << <<"MOD_ADD", "sn", <<"list", <<B("al")>> >> >>,
                        <<"MOD_ADD", "sn", <<"list", <<B("al")>> >> >> >>
    /\ Lower(T_Alice) \in DOMAIN directory
    /\ "sn" \in DOMAIN directory[Lower(T_Alice)].attrs
    /\ directory[Lower(T_Alice)].attrs["sn"] = <<B("al")>>

\* the step is a modify_s of an entry the directory holds whose list is one
\* MOD_REPLACE triple, given once or twice, with no value that is not bytes
ReplaceStep ==
    /\ ncalls' = ncalls + 1
    /\ ret'.op = "modify_s"
    /\ ValidDn(ret'.args[1])
    /\ HoldsUpToCase(directory, ret'.args[1])
    /\ Len(ret'.args[2]) \in {1, 2}
    /\ \A i \in DOMAIN ret'.args[2] : ret'.args[2][i] = ret'.args[2][1]
    /\ ret'.args[2][1][1] = "MOD_REPLACE"
    /\ ~AnyNotBytes(NormValue(ret'.args[2][1][3]))

\* C9: a MOD_REPLACE on an entry the directory holds succeeds; given None
\* or an empty list it leaves the entry without the attribute, whether the
\* entry had it or not; given a non-empty list of bytes it leaves the
\* attribute with exactly that list, whatever it held; every other attribute
\* of the entry, and every other entry, is as before.
C9_ReplaceSetsOrRemoves ==
    [][ReplaceStep =>
         LET k == Lower(ret'.args[1])
             attr == ret'.args[2][1][2]
             given == NormValue(ret'.args[2][1][3])
             old == directory[k].attrs
             new == directory'[k].attrs
         IN /\ ret'.exc = ""
            /\ ret'.val = <<103, <<>>>>
            /\ DOMAIN directory' = DOMAIN directory
            /\ \A j \in DOMAIN directory \ {k} : directory'[j] = directory[j]
            /\ directory'[k].dn = directory[k].dn
            /\ IF given = <<>> THEN attr \notin DOMAIN new
               ELSE attr \in DOMAIN new /\ new[attr] = given
            /\ DOMAIN new \ {attr} = DOMAIN old \ {attr}
            /\ \A a \in DOMAIN old \ {attr} : new[a] = old[a]]_vars

\* a MOD_REPLACE of cn with None removed cn from cn=alice,dc=com and
\* left its userPassword
C9_Witness ==
    /\ ret.op = "modify_s"
    /\ ret.exc = ""
    /\ ret.args = <<T_Alice, << <<"MOD_REPLACE", "cn", <<"none">> >> >> >>
    /\ Lower(T_Alice) \in DOMAIN directory
    /\ DOMAIN directory[Lower(T_Alice)].attrs = {"userPassword"}

-----------------------------------------------------------------------------
(* Rename *)

\* the step is a rename_s of an entry the directory holds, with arguments
\* that pass the DN validation
RenameStep ==
    /\ ncalls' = ncalls + 1
    /\ ret'.op = "rename_s"
    /\ ValidDn(ret'.args[1])
    /\ ValidDn(ret'.args[2])
    /\ Truthy(ret'.args[3]) => ValidDn(ret'.args[3][1])
    /\ HoldsUpToCase(directory, ret'.args[1])

\* the text of dn after its first comma: nothing if it has no comma
AfterFirstComma(dn) == IF Len(dn) = 1 THEN EmptyText ELSE Tail(dn)

\* newrdn, a comma, and newsuperior if one is given (None and '' are none),
\* else the text of dn after its first comma
ClaimedFullDn(dn, newrdn, newsuperior) ==
    newrdn \o (IF newsuperior # None /\ newsuperior # Some(EmptyText)
               THEN newsuperior[1]
               ELSE AfterFirstComma(dn))

\* C10: a rename_s of an entry the directory holds takes as new full DN
\* newrdn, a comma, and newsuperior if given, else what follows the first
\* comma of dn.  If the directory holds that DN up to letter case, the
\* entry's own DN included, it fails ALREADY_EXISTS and changes nothing.
\* Otherwise it does not fail ALREADY_EXISTS, and if it succeeds the
\* directory holds nothing under the old DN, holds the entry under the new
\* full DN, holds as many entries as before, and every other entry, the
\* descendants of the old DN included, is unchanged under its key.
C10_RenameRekeys ==
    [][RenameStep =>
         LET dn == ret'.args[1]
             full == ClaimedFullDn(ret'.args[1], ret'.args[2], ret'.args[3])
             old == directory[Lower(dn)].attrs
         IN IF HoldsUpToCase(directory, full)
            THEN ret'.exc = "ALREADY_EXISTS" /\ directory' = directory
            ELSE /\ ret'.exc \notin {"ALREADY_EXISTS", "NO_SUCH_OBJECT",
                                     "INVALID_DN_SYNTAX"}
                 /\ ret'.exc = "" =>
                      /\ ret'.val = <<109, <<>>>>
                      /\ ~HoldsUpToCase(directory', dn)
                      /\ Lower(full) \in DOMAIN directory'
                      /\ directory'[Lower(full)].dn = full
                      /\ Cardinality(DOMAIN directory') = Cardinality(DOMAIN directory)
                      /\ \A j \in DOMAIN directory \ {Lower(dn)} :
                            j \in DOMAIN directory' /\ directory'[j] = directory[j]
                      /\ \A a \in DOMAIN old \ {dn[1][1], ret'.args[2][1][1]} :
                            /\ a \in DOMAIN directory'[Lower(full)].attrs
                            /\ directory'[Lower(full)].attrs[a] = old[a]]_vars

\* cn=alice,dc=com was renamed to sn=al with the new superior dc=com given:
\* the directory holds it as sn=al,dc=com, and still holds its descendant
\* cn=al,cn=alice,dc=com under the old key
C10_Witness ==
    /\ ret.op = "rename_s"
    /\ ret.exc = ""
    /\ ret.args = <<T_Alice, R_Sn, Some(T_Com)>>
    /\ DOMAIN directory = {Lower(T_Root), Lower(T_Com), Lower(T_Sub),
                           << <<"sn", "al">>, <<"dc", "com">> >>}
    /\ directory[Lower(T_Sub)].attrs = SeedSub

\* the step is a rename_s that succeeded
RenamedStep == RenameStep /\ ret'.exc = ""

\* the entry before a rename_s step, and the entry that the directory holds
\* under the new full DN after it
EntryBeforeRename == directory[Lower(ret'.args[1])].attrs

EntryAfterRename ==
    directory'[Lower(ClaimedFullDn(ret'.args[1], ret'.args[2], ret'.args[3]))].attrs

\* what a successful rename_s does to the naming attributes: the old RDN
\* value leaves the old RDN attribute if that is also the new RDN attribute
\* or holds several values, else the old RDN attribute is deleted; then the
\* new RDN value is appended to the new RDN attribute unless it is there, the
\* attribute being created if absent; no other attribute changes
RenameNamingEffect ==
    LET oldattr == ret'.args[1][1][1]
        oldvalue == B(ret'.args[1][1][2])
        newattr == ret'.args[2][1][1]
        newvalue == B(ret'.args[2][1][2])
        old == EntryBeforeRename
        new == EntryAfterRename
        keeps == oldattr = newattr \/ Len(old[oldattr]) > 1
        mid == IF keeps THEN ListRemove(old[oldattr], oldvalue) ELSE <<>>
        had == IF newattr = oldattr THEN keeps ELSE newattr \in DOMAIN old
        before == IF newattr = oldattr THEN mid
                  ELSE IF newattr \in DOMAIN old THEN old[newattr] ELSE <<>>
    IN /\ oldattr \in DOMAIN old
       /\ keeps => InList(oldvalue, old[oldattr])
       /\ DOMAIN new = (DOMAIN old \ (IF keeps THEN {} ELSE {oldattr})) \cup {newattr}
       /\ oldattr # newattr /\ keeps => new[oldattr] = mid
       /\ new[newattr] = IF had /\ InList(newvalue, before) THEN before
                         ELSE Append(before, newvalue)
       /\ \A a \in DOMAIN old \ {oldattr, newattr} : new[a] = old[a]

\* C11: after a successful rename_s the naming attributes are updated as
\* above, and the new RDN value occurs exactly once in the new RDN attribute;
\* in particular cn=alice,dc=com with cn=[alice, al] renamed to cn=al under
\* the same parent ends with cn=[al] at cn=al,dc=com.
C11_RenameNamingAttributes ==
    [][RenamedStep =>
         /\ RenameNamingEffect
         /\ Count(B(ret'.args[2][1][2]), EntryAfterRename[ret'.args[2][1][1]]) = 1
         /\ (ret'.args = <<T_Alice, R_Al, None>>
               /\ EntryBeforeRename["cn"] = <<B("alice"), B("al")>>)
              => /\ EntryAfterRename["cn"] = <<B("al")>>
                 /\ directory'[Lower(T_Al)].dn = T_Al]_vars

\* the naming attributes are updated as above by every successful rename_s,
\* the new RDN value occurring as often as before, and once if it was absent
C11_RenameNamingNoNewOccurrence ==
    [][RenamedStep => RenameNamingEffect]_vars

-----------------------------------------------------------------------------
(* Modify of an absent entry *)

\* C12: a modify_s whose dn is a valid DN that the directory does not hold
\* fails NO_SUCH_OBJECT whatever its list of triples is, the empty list
\* included, and never returns the success result (103, []).
C12_ModifyAbsentNoSuchObject ==
    [][(/\ ncalls' = ncalls + 1
        /\ ret'.op = "modify_s"
        /\ ValidDn(ret'.args[1])
        /\ ~HoldsUpToCase(directory, ret'.args[1]))
       => (ret'.exc = "NO_SUCH_OBJECT" /\ ret'.val # <<103, <<>>>>)]_vars

-----------------------------------------------------------------------------
(* The methods that change the directory *)

\* C13: the directory is changed only by add_s, delete_s, modify_s and
\* rename_s: every call of any other method, passwd_s included, successful
\* or failing, leaves the DNs held and every entry's attributes and values
\* as they were.
C13_OnlyFourMethodsChangeDirectory ==
    [][(ncalls' = ncalls + 1
          /\ ret'.op \notin {"add_s", "delete_s", "modify_s", "rename_s"})
       => directory' = directory]_vars

\* C13, with passwd_s among the methods that change the directory: every
\* call of initialize, sasl_external_bind_s, simple_bind_s, unbind, search,
\* result, search_s, compare_s, start_tls_s, set_option, get_option or
\* whoami_s, successful or failing, leaves the directory as it was.
C13_OnlyFiveMethodsChangeDirectory ==
    [][(ncalls' = ncalls + 1
          /\ ret'.op \notin {"add_s", "delete_s", "modify_s", "rename_s",
                             "passwd_s"})
       => directory' = directory]_vars

\* a compare_s found the value in an entry that an earlier call had changed
C13_Witness ==
    /\ ncalls = 2
    /\ ret.op = "compare_s"
    /\ ret.exc = ""
    /\ ret.val = 1
    /\ directory \notin Seeds

-----------------------------------------------------------------------------
(* Password change *)

\* the step is a passwd_s whose user is a valid DN
PasswdStep == ncalls' = ncalls + 1 /\ ret'.op = "passwd_s" /\ ValidDn(ret'.args[1])

\* the entry of user before the step holds a first userPassword value that
\* equals oldpw as a value
LiterallyEqual(user, oldpw) ==
    LET entry == directory[Lower(user)].attrs IN
    /\ "userPassword" \in DOMAIN entry
    /\ entry["userPassword"] # <<>>
    /\ entry["userPassword"][1] = oldpw

\* the step sets userPassword of user to [newpw] and changes nothing else
PasswordSet(user, newpw) ==
    LET k == Lower(user) IN
    /\ ret'.exc = ""
    /\ DOMAIN directory' = DOMAIN directory
    /\ \A j \in DOMAIN directory \ {k} : directory'[j] = directory[j]
    /\ directory'[k].dn = directory[k].dn
    /\ DOMAIN directory'[k].attrs = DOMAIN directory[k].attrs \cup {"userPassword"}
    /\ directory'[k].attrs["userPassword"] = <<newpw>>
    /\ \A a \in DOMAIN directory[k].attrs \ {"userPassword"} :
          directory'[k].attrs[a] = directory[k].attrs[a]

\* C14: passwd_s(user, oldpw, newpw) on an entry the directory holds: with
\* no oldpw, userPassword is [newpw] afterwards; with an oldpw, userPassword
\* is set to [newpw] if oldpw equals the first stored value literally, and
\* the directory is unchanged otherwise, also when a stored value verifies
\* oldpw through _compare_password.  On a valid DN that the directory does
\* not hold it fails NO_SUCH_OBJECT.
C14_PasswdLiteralComparison ==
    [][PasswdStep =>
         LET user == ret'.args[1]
             oldpw == ret'.args[2]
             newpw == ret'.args[3]
         IN IF ~HoldsUpToCase(directory, user)
            THEN ret'.exc = "NO_SUCH_OBJECT" /\ directory' = directory
            ELSE IF oldpw = None THEN PasswordSet(user, newpw)
            ELSE /\ IF LiterallyEqual(user, oldpw[1])
                    THEN PasswordSet(user, newpw)
                    ELSE directory' = directory
                 /\ (SomeValueVerifies(directory, user, oldpw[1][2])
                       /\ ~LiterallyEqual(user, oldpw[1]))
                      => directory' = directory]_vars

\* passwd_s was given the old password pw, which the stored {SSHA}pw
\* verifies: it returned without an exception and without changing the entry
C14_Witness ==
    /\ ret.op = "passwd_s"
    /\ ret.args = <<T_Alice, Some(B("pw")), B("new")>>
    /\ ret.exc = ""
    /\ directory[Lower(T_Alice)].attrs = SeedAlice2
    /\ SomeValueVerifies(directory, T_Alice, "pw")

-----------------------------------------------------------------------------
(* Attribute names in either letter case *)

\* the step is a successful modify_s or rename_s of the entry that the call
\* before it, a successful add_s, created
ChangeOfAddedEntry ==
    /\ ncalls' = ncalls + 1
    /\ ret.op = "add_s"
    /\ ret.exc = ""
    /\ ret'.op \in {"modify_s", "rename_s"}
    /\ ret'.exc = ""
    /\ Lower(ret'.args[1]) = Lower(ret.args[1])

\* where the directory holds that entry after the step
KeyAfterChange ==
    IF ret'.op = "rename_s"
    THEN Lower(ClaimedFullDn(ret'.args[1], ret'.args[2], ret'.args[3]))
    ELSE Lower(ret'.args[1])

\* C15: attribute names that differ only in letter case denote one
\* attribute: an entry created by add_s and then changed by modify_s or
\* rename_s holds no two attribute keys that differ only in case, and a
\* MOD_REPLACE given a name in one case leaves the values it gives under
\* every key of the entry that equals that name up to case.
C15_AttributeNamesCaseInsensitive ==
    [][ChangeOfAddedEntry =>
         LET entry == directory'[KeyAfterChange].attrs IN
         /\ \A a, b \in DOMAIN entry : LowerPiece(a) = LowerPiece(b) => a = b
         /\ (ret'.op = "modify_s" /\ Len(ret'.args[2]) = 1
               /\ ret'.args[2][1][1] = "MOD_REPLACE"
               /\ ret'.args[2][1][3][1] = "list"
               /\ ret'.args[2][1][3][2] # <<>>)
              => \A a \in DOMAIN entry :
                    LowerPiece(a) = LowerPiece(ret'.args[2][1][2])
                       => entry[a] = ret'.args[2][1][3][2]]_vars

-----------------------------------------------------------------------------
(* Value lists without duplicates *)

\* C16: in every state reached from a directory whose value lists have no
\* duplicates, whatever add_s, modify_s (MOD_ADD, MOD_DELETE, MOD_REPLACE,
\* also with lists that repeat a value), rename_s and passwd_s calls were
\* made, no value occurs twice in the list of an attribute of an entry.
C16_NoDuplicateValues ==
    \A k \in DOMAIN directory :
        \A a \in DOMAIN directory[k].attrs :
            \A i, j \in DOMAIN directory[k].attrs[a] :
                directory[k].attrs[a][i] = directory[k].attrs[a][j] => i = j

-----------------------------------------------------------------------------
(* The triples of a modify, one after the other *)

\* the step is a modify_s of an entry the directory holds
ModifyHeldStep ==
    /\ ncalls' = ncalls + 1
    /\ ret'.op = "modify_s"
    /\ ValidDn(ret'.args[1])
    /\ HoldsUpToCase(directory, ret'.args[1])

\* the entry after the first n triples of items were applied to it in order
RECURSIVE AppliedInOrder(_, _, _)
AppliedInOrder(entry, items, n) ==
    IF n = 0 THEN entry
    ELSE ModTriple(AppliedInOrder(entry, items, n - 1), items[n]).attrs

\* what triple n of items raises on the entry that the triples before it
\* left ("" if it raises nothing)
RaisedBy(entry, items, n) ==
    ModTriple(AppliedInOrder(entry, items, n - 1), items[n]).exc

\* the first triple of items that raises, 0 if none does
FirstFailing(entry, items) ==
    IF \E n \in DOMAIN items : RaisedBy(entry, items, n) # ""
    THEN CHOOSE n \in DOMAIN items :
            /\ RaisedBy(entry, items, n) # ""
            /\ \A m \in 1..(n - 1) : RaisedBy(entry, items, m) = ""
    ELSE 0

\* C17: modify_s applies its triples in list order and is not atomic: if
\* triple k is the first that fails (PROTOCOL_ERROR for a MOD_ADD with no
\* value, TypeError for a value that is not bytes), the call raises that
\* error and the entry is left as triples 1..k-1 made it, in order; if none
\* fails the entry is what all triples make it, in order, and the call
\* returns (103, []).  No other entry changes.
C17_ModifyInOrderNotAtomic ==
    [][ModifyHeldStep =>
         LET k == Lower(ret'.args[1])
             items == ret'.args[2]
             entry == directory[k].attrs
             f == FirstFailing(entry, items)
         IN /\ DOMAIN directory' = DOMAIN directory
            /\ \A j \in DOMAIN directory \ {k} : directory'[j] = directory[j]
            /\ directory'[k].dn = directory[k].dn
            /\ IF f = 0
               THEN /\ ret'.exc = ""
                    /\ ret'.val = <<103, <<>>>>
                    /\ directory'[k].attrs = AppliedInOrder(entry, items, Len(items))
               ELSE /\ ret'.exc = RaisedBy(entry, items, f)
                    /\ ret'.exc \in {"PROTOCOL_ERROR", "TypeError"}
                    /\ directory'[k].attrs = AppliedInOrder(entry, items, f - 1)]_vars

\* a modify_s of two triples raised PROTOCOL_ERROR at its second triple and
\* left the sn that its first triple added
C17_Witness ==
    /\ ret.op = "modify_s"
    /\ ret.exc = "PROTOCOL_ERROR"
    /\ ret.args = <<T_Alice, << <<"MOD_ADD", "sn", <<"list", <<B("al")>> >> >>,
                                <<"MOD_ADD", "cn", <<"none">> >> >> >>
    /\ ncalls = 1
    /\ "sn" \in DOMAIN directory[Lower(T_Alice)].attrs
    /\ directory[Lower(T_Alice)].attrs["sn"] = <<B("al")>>

-----------------------------------------------------------------------------
(* Calls that fail *)

\* C18: a call of add_s, delete_s, rename_s, passwd_s, search or search_s
\* that raises leaves the directory, the bound identity, the TLS flag, the
\* options and the table of async results as they were: a failing search
\* issues no ticket, a failing rename leaves the entry and its key.
C18_FailingCallsChangeNothing ==
    [][(/\ ncalls' = ncalls + 1
        /\ ret'.op \in {"add_s", "delete_s", "rename_s", "passwd_s",
                        "search", "search_s"}
        /\ ret'.exc # "")
       => UNCHANGED <<directory, async_results, options, tls_enabled, bound_as>>]_vars

\* a search with an unsupported filter failed while a ticket was outstanding
C18_Witness ==
    /\ ncalls = 2
    /\ ret.op = "search"
    /\ ret.exc # ""
    /\ ret.exc # "NO_SUCH_OBJECT"
    /\ ret.exc # "INVALID_DN_SYNTAX"
    /\ Len(async_results) = 1
    /\ async_results[1] # None

-----------------------------------------------------------------------------
(* The results a ticket holds *)

\* C19: the results held under a ticket are those the search computed when
\* it was issued: as long as the ticket is not fetched, no call changes the
\* DNs, attributes and values that a result() of the ticket returns, with
\* or without an attrlist in the search.
C19_TicketHoldsSnapshot ==
    [][\A i \in DOMAIN async_results :
          (async_results[i] # None /\ async_results'[i] # None)
             => Visible(async_results'[i][1]) = Visible(async_results[i][1])]_vars

-----------------------------------------------------------------------------
(* The keys of the directory as DNs *)

\* C20: every key of the directory is a valid DN in every state reached
\* from a directory whose keys are valid DNs, the rename_s of an entry whose
\* DN has one component with no newsuperior included, and no search fails
\* in exploding the keys.
C20_KeysAreValidDns ==
    /\ \A k \in DOMAIN directory : ValidDn(k) /\ ValidDn(directory[k].dn)
    /\ ret.op \in {"search", "search_s"} => ret.exc # "DECODING_ERROR"

=============================================================================
